---- MODULE Spec2Model ----
(***************************************************************************)
(* The themes utilities of wp-calypso (state/themes/utils): the query      *)
(* canonicalizer (normalize, serialize, deserialize), the client-side      *)
(* matcher used for Jetpack sites, and the theme normalizers.              *)
(*                                                                         *)
(* JavaScript values are tagged records.  A string is a sequence of        *)
(* one-character strings, an object is the sequence of its own enumerable  *)
(* [k, v] pairs in insertion order (keys are unique), an array is a        *)
(* sequence of values.  The keys of query objects are character sequences, *)
(* because JSON.stringify writes them out and JSON.parse reads them back;  *)
(* the keys of theme objects are never serialized and are plain names.     *)
(*                                                                         *)
(* The ad-tracking module (lib/analytics/ad-tracking) is modelled next to  *)
(* it: its three module flags, the five tracking scripts that              *)
(* loadTrackingScripts fetches in parallel, and the queues of the          *)
(* trackers.  Every exported call and every completion of a script load    *)
(* is one step: JavaScript runs each of them to its end.                   *)
(***************************************************************************)
EXTENDS Integers, Sequences, FiniteSets, TLC

VARIABLES
    DEFAULT_THEME_QUERY, \* the imported default query (an object value)
    op,                  \* the function that ran last, "init" before any
    query,               \* argument: the themes query
    siteId,              \* argument: the optional site id
    serializedQuery,     \* a serialized query key (a string value), or NoValue
    result,              \* what the last function returned
    theme,               \* argument: a theme object
    themes,              \* argument: an array of theme objects
    adTracking,                 \* config.isEnabled( 'ad-tracking' )
    hasStartedFetchingScripts,  \* module variables of lib/analytics/ad-tracking
    hasFinishedFetchingScripts,
    retargetingInitialized,
    scripts,             \* each tracking script: "idle", "loading", "loaded", "failed"
    parallel,            \* the async.parallel run of loadTrackingScripts, or NoValue
    window,              \* the globals of the trackers: their queues and functions
    calls                \* the calls of the exported functions so far, in order

\* the state of the ad-tracking module
adTrackingVars ==
    <<adTracking, hasStartedFetchingScripts, hasFinishedFetchingScripts,
      retargetingInitialized, scripts, parallel, window, calls>>

\* the state of the themes utilities
themesVars ==
    <<DEFAULT_THEME_QUERY, op, query, siteId, serializedQuery, result, theme, themes>>

vars == <<themesVars, adTrackingVars>>

-----------------------------------------------------------------------------
(* Bounds *)

\* longest string value of a query option
MaxStrLen == 1
\* longest raw string handed to getDeserializedThemesQueryDetails
MaxKeyLen == 4
\* largest site id
MaxSiteId == 11
\* most terms in a theme's feature taxonomy
MaxTerms == 1
\* most themes in the array handed to filterThemesForJetpack
MaxThemes == 3
\* most tags of a theme that a Jetpack site returned
MaxTags == 3
\* most calls of the exported ad-tracking functions in one run
MaxCalls == 2

-----------------------------------------------------------------------------
(* JavaScript values *)

Undefined == [t |-> "undefined"]
Null == [t |-> "null"]
NaN == [t |-> "NaN"]
Bool(b) == [t |-> "boolean", b |-> b]
Num(n) == [t |-> "number", n |-> n]
Str(s) == [t |-> "string", s |-> s]
Arr(a) == [t |-> "array", a |-> a]
Obj(o) == [t |-> "object", o |-> o]

\* a slot that holds no JavaScript value at all (nothing was computed yet)
NoValue == [t |-> "none"]
\* the outcome of a call that threw
Raised == [t |-> "raised"]

\* U+2028 LINE SEPARATOR and U+000A LINE FEED, as single characters
LS == "LS"
NL == "NL"
QUOTE == "\""
BACKSLASH == "\\"

Digits == <<"0", "1", "2", "3", "4", "5", "6", "7", "8", "9">>
DigitSet == {Digits[i] : i \in 1..10}
DigitValue(c) == (CHOOSE i \in 1..10 : Digits[i] = c) - 1

\* ToBoolean
Truthy(v) ==
    CASE v.t \in {"undefined", "null", "NaN"} -> FALSE
      [] v.t = "boolean" -> v.b
      [] v.t = "number" -> v.n # 0
      [] v.t = "string" -> v.s # <<>>
      [] OTHER -> TRUE

\* a === b: primitives by value (NaN equals nothing), objects by identity; the
\* objects compared here are never the same object
StrictEquals(a, b) ==
    /\ a.t \notin {"NaN", "object", "array"}
    /\ a = b

Keys(o) == {o[i].k : i \in 1..Len(o)}
HasKey(obj, key) == obj.t = "object" /\ key \in Keys(obj.o)

\* obj[ key ]: undefined for a key the object does not have
Get(obj, key) ==
    IF HasKey(obj, key)
    THEN LET i == CHOOSE j \in 1..Len(obj.o) : obj.o[j].k = key IN obj.o[i].v
    ELSE Undefined

\* obj[ key ] = value on a pair list: an existing key keeps its position
SetPair(o, key, value) ==
    IF key \in Keys(o)
    THEN [i \in 1..Len(o) |-> IF o[i].k = key THEN [k |-> key, v |-> value] ELSE o[i]]
    ELSE Append(o, [k |-> key, v |-> value])

\* the decimal digits of a natural number
RECURSIVE NatToString(_)
NatToString(n) ==
    IF n < 10 THEN <<Digits[n + 1]>>
    ELSE NatToString(n \div 10) \o <<Digits[(n % 10) + 1]>>

\* Number::toString for the integers of the model
NumberToString(n) == IF n < 0 THEN <<"-">> \o NatToString(-n) ELSE NatToString(n)

\* the value of a run of decimal digits
RECURSIVE DigitsToNat(_)
DigitsToNat(s) ==
    IF s = <<>> THEN 0
    ELSE 10 * DigitsToNat(SubSeq(s, 1, Len(s) - 1)) + DigitValue(s[Len(s)])

\* lodash toPlainObject-like view that omitBy / omit iterate: the own
\* enumerable properties; a string has its indices, other primitives none
OwnPairs(v) ==
    CASE v.t = "object" -> v.o
      [] v.t = "string" -> [i \in 1..Len(v.s) |-> [k |-> NatToString(i - 1), v |-> Str(<<v.s[i]>>)]]
      [] v.t = "array" -> [i \in 1..Len(v.a) |-> [k |-> NatToString(i - 1), v |-> v.a[i]]]
      [] OTHER -> <<>>

\* the own enumerable properties as a set
PairSet(v) == {OwnPairs(v)[i] : i \in 1..Len(OwnPairs(v))}

\* lodash omitBy( object, predicate ): a new object without the properties
\* the predicate holds for; the predicate is given as the set of those
\* properties
omitBy(object, omitted) ==
    LET Keep(p) == p \notin omitted
    IN Obj(SelectSeq(OwnPairs(object), Keep))

\* lodash omit( object, key ): a new object without that property
omit(object, key) ==
    LET Keep(p) == p.k # key
    IN Obj(SelectSeq(OwnPairs(object), Keep))

-----------------------------------------------------------------------------
(* JSON.stringify and JSON.parse, character by character *)

\* QuoteJSONString: the double quote and the backslash are escaped, control
\* characters (here the line feed) are escaped, every other character, U+2028
\* included, is copied as it is
RECURSIVE EscapeJSONString(_)
EscapeJSONString(s) ==
    IF s = <<>> THEN <<>>
    ELSE LET c == Head(s)
             e == CASE c = QUOTE -> <<BACKSLASH, QUOTE>>
                    [] c = BACKSLASH -> <<BACKSLASH, BACKSLASH>>
                    [] c = NL -> <<BACKSLASH, "n">>
                    [] OTHER -> <<c>>
         IN e \o EscapeJSONString(Tail(s))

QuoteJSONString(s) == <<QUOTE>> \o EscapeJSONString(s) \o <<QUOTE>>

\* SerializeJSONProperty / SerializeJSONObject: a property whose value is
\* undefined is left out, NaN is written as null
RECURSIVE SerializeJSONProperty(_), SerializeJSONMembers(_, _)
SerializeJSONProperty(v) ==
    CASE v.t \in {"null", "NaN"} -> <<"n", "u", "l", "l">>
      [] v.t = "boolean" -> IF v.b THEN <<"t", "r", "u", "e">> ELSE <<"f", "a", "l", "s", "e">>
      [] v.t = "number" -> NumberToString(v.n)
      [] v.t = "string" -> QuoteJSONString(v.s)
      [] v.t = "object" -> <<"{">> \o SerializeJSONMembers(v.o, TRUE) \o <<"}">>

SerializeJSONMembers(o, first) ==
    IF o = <<>> THEN <<>>
    ELSE IF Head(o).v.t = "undefined" THEN SerializeJSONMembers(Tail(o), first)
    ELSE (IF first THEN <<>> ELSE <<",">>)
         \o QuoteJSONString(Head(o).k) \o <<":">> \o SerializeJSONProperty(Head(o).v)
         \o SerializeJSONMembers(Tail(o), FALSE)

\* JSON.stringify( value ): a string, or undefined for undefined
JSONstringify(value) ==
    IF value.t = "undefined" THEN Undefined ELSE Str(SerializeJSONProperty(value))

ParseFail == [ok |-> FALSE]
ParseOk(v, i) == [ok |-> TRUE, v |-> v, i |-> i]

CharAt(s, i) == IF i \in 1..Len(s) THEN s[i] ELSE "EOF"

\* JSON whitespace
RECURSIVE SkipWhitespace(_, _)
SkipWhitespace(s, i) ==
    IF CharAt(s, i) \in {" ", NL} THEN SkipWhitespace(s, i + 1) ELSE i

\* the characters of a JSON string literal after its opening quote.  Of the
\* escapes only the three that QuoteJSONString writes are decoded; no string
\* of the model holds another one
RECURSIVE ParseJSONString(_, _, _)
ParseJSONString(s, j, acc) ==
    LET c == CharAt(s, j) IN
    CASE c = "EOF" -> ParseFail
      [] c = NL -> ParseFail
      [] c = QUOTE -> ParseOk(acc, j + 1)
      [] c = BACKSLASH ->
            LET d == CharAt(s, j + 1) IN
            CASE d = QUOTE -> ParseJSONString(s, j + 2, Append(acc, QUOTE))
              [] d = BACKSLASH -> ParseJSONString(s, j + 2, Append(acc, BACKSLASH))
              [] d = "n" -> ParseJSONString(s, j + 2, Append(acc, NL))
              [] OTHER -> ParseFail
      [] OTHER -> ParseJSONString(s, j + 1, Append(acc, c))

\* the end of the run of digits that starts at i
RECURSIVE DigitsEnd(_, _)
DigitsEnd(s, i) == IF CharAt(s, i) \in DigitSet THEN DigitsEnd(s, i + 1) ELSE i

\* a JSON number: an optional minus, then 0 or a run of digits that does not
\* start with 0 (no string of the model holds a fraction or an exponent)
ParseJSONNumber(s, i) ==
    LET neg == CharAt(s, i) = "-"
        b == IF neg THEN i + 1 ELSE i
        e == IF CharAt(s, b) = "0" THEN b + 1 ELSE DigitsEnd(s, b)
        n == DigitsToNat(SubSeq(s, b, e - 1))
    IN IF e = b THEN ParseFail
       ELSE ParseOk(Num(IF neg THEN -n ELSE n), e)

IsLiteralAt(s, i, lit) ==
    /\ i + Len(lit) - 1 <= Len(s)
    /\ SubSeq(s, i, i + Len(lit) - 1) = lit

RECURSIVE ParseJSONValue(_, _), ParseJSONMembers(_, _, _)
ParseJSONValue(s, i0) ==
    LET i == SkipWhitespace(s, i0)
        c == CharAt(s, i)
    IN CASE c = "{" ->
                LET j == SkipWhitespace(s, i + 1)
                IN IF CharAt(s, j) = "}" THEN ParseOk(Obj(<<>>), j + 1)
                   ELSE ParseJSONMembers(s, j, <<>>)
         [] c = QUOTE ->
                LET r == ParseJSONString(s, i + 1, <<>>)
                IN IF r.ok THEN ParseOk(Str(r.v), r.i) ELSE ParseFail
         [] c \in DigitSet \cup {"-"} -> ParseJSONNumber(s, i)
         [] IsLiteralAt(s, i, <<"n", "u", "l", "l">>) -> ParseOk(Null, i + 4)
         [] IsLiteralAt(s, i, <<"t", "r", "u", "e">>) -> ParseOk(Bool(TRUE), i + 4)
         [] IsLiteralAt(s, i, <<"f", "a", "l", "s", "e">>) -> ParseOk(Bool(FALSE), i + 5)
         [] OTHER -> ParseFail

\* the members of an object after its opening brace; a repeated key keeps its
\* first position and takes the last value
ParseJSONMembers(s, i0, acc) ==
    LET i == SkipWhitespace(s, i0) IN
    IF CharAt(s, i) # QUOTE THEN ParseFail
    ELSE LET key == ParseJSONString(s, i + 1, <<>>) IN
         IF ~key.ok THEN ParseFail
         ELSE LET j == SkipWhitespace(s, key.i) IN
              IF CharAt(s, j) # ":" THEN ParseFail
              ELSE LET val == ParseJSONValue(s, j + 1) IN
                   IF ~val.ok THEN ParseFail
                   ELSE LET m == SkipWhitespace(s, val.i)
                            next == SetPair(acc, key.v, val.v)
                        IN CASE CharAt(s, m) = "," -> ParseJSONMembers(s, m + 1, next)
                             [] CharAt(s, m) = "}" -> ParseOk(Obj(next), m + 1)
                             [] OTHER -> ParseFail

\* JSON.parse( text ): the value, or Raised for a SyntaxError
JSONparse(text) ==
    LET r == ParseJSONValue(text.s, 1) IN
    IF r.ok /\ SkipWhitespace(text.s, r.i) = Len(text.s) + 1 THEN r.v ELSE Raised

-----------------------------------------------------------------------------
(* The query canonicalizer *)

K_search == <<"s", "e", "a", "r", "c", "h">>
K_filter == <<"f", "i", "l", "t", "e", "r">>
K_page == <<"p", "a", "g", "e">>
\* an option that no default query has
K_x == <<"x">>

Pair(key, value) == [k |-> key, v |-> value]

\* the default themes query of ./constants: the recognized options with their
\* default values; with and without a default for page
DefaultThemeQueries ==
    { Obj(<<Pair(K_search, Str(<<>>)), Pair(K_filter, Str(<<>>))>>),
      Obj(<<Pair(K_search, Str(<<>>)), Pair(K_filter, Str(<<>>)), Pair(K_page, Num(1))>>) }

\* the characters the pattern's . does not match; of the four line
\* terminators the model has two
LineTerminators == {NL, LS}

\* String( value ) as Array::join applies it to the site id
StringOf(v) ==
    CASE v.t = "string" -> v.s
      [] v.t = "number" -> NumberToString(v.n)

\* Number( value ) of a capture group: an unmatched group is undefined
ToNumber(v) ==
    CASE v.t = "undefined" -> NaN
      [] v.t = "string" -> Num(DigitsToNat(v.s))

\* str.match( /^(?:(\d+):)?(.*)$/ ): the two capture groups, or null.  The
\* . stops at a line terminator and $ is the end of the string, so a string
\* that holds a line terminator does not match at all
REGEXP_SERIALIZED_QUERY(str) ==
    LET e == DigitsEnd(str, 1) IN
    IF \E i \in 1..Len(str) : str[i] \in LineTerminators
    THEN Null
    ELSE IF e > 1 /\ CharAt(str, e) = ":"
    THEN [t |-> "match", g1 |-> Str(SubSeq(str, 1, e - 1)), g2 |-> Str(SubSeq(str, e + 1, Len(str)))]
    ELSE [t |-> "match", g1 |-> Undefined, g2 |-> Str(str)]

MatchesDefault(value, key) == StrictEquals(Get(DEFAULT_THEME_QUERY, key), value)

\* faulty variant: the comparison with the default is == instead of ===, so that
\* null matches an absent (undefined) default
MatchesDefaultLoosely(value, key) ==
    LET default == Get(DEFAULT_THEME_QUERY, key) IN
    \/ StrictEquals(default, value)
    \/ {default.t, value.t} \subseteq {"undefined", "null"}

getNormalizedThemesQuery_LooseEquality(q) ==
    omitBy(q, {p \in PairSet(q) : MatchesDefaultLoosely(p.v, p.k)})

getNormalizedThemesQuery(q) ==
    omitBy(q, {p \in PairSet(q) : MatchesDefault(p.v, p.k)})

\* faulty variant: the query is serialized as it came, without normalizing it
getSerializedThemesQuery_NotNormalized(q, s) ==
    LET serialized == JSONstringify(IF q.t = "undefined" THEN Obj(<<>>) ELSE q)
    IN IF Truthy(s)
       THEN Str(StringOf(s) \o <<":">> \o serialized.s)
       ELSE serialized

getSerializedThemesQuery(q, s) ==
    LET normalizedQuery == getNormalizedThemesQuery(IF q.t = "undefined" THEN Obj(<<>>) ELSE q)
        serialized == JSONstringify(normalizedQuery)
    IN IF Truthy(s)
       THEN Str(StringOf(s) \o <<":">> \o serialized.s)
       ELSE serialized

getDeserializedThemesQueryDetails(serialized) ==
    LET matches == REGEXP_SERIALIZED_QUERY(serialized.s) IN
    IF Truthy(matches)
    THEN LET number == ToNumber(matches.g1)
             parsed == JSONparse(matches.g2)
         IN [siteId |-> IF Truthy(number) THEN number ELSE Undefined,
             query |-> IF parsed = Raised THEN Undefined ELSE parsed]
    ELSE [siteId |-> Undefined, query |-> Undefined]

\* faulty variant: the page is left in the query
getSerializedThemesQueryWithoutPage_KeepsPage(q, s) == getSerializedThemesQuery(q, s)

getSerializedThemesQueryWithoutPage(q, s) == getSerializedThemesQuery(omit(q, K_page), s)

-----------------------------------------------------------------------------
(* The matcher *)

\* String::toLowerCase on the letters of the model
LowerCaseChar(c) ==
    CASE c = "A" -> "a"
      [] c = "B" -> "b"
      [] c = "C" -> "c"
      [] c = "D" -> "d"
      [] c = "E" -> "e"
      [] c = "X" -> "x"
      [] OTHER -> c

toLowerCase(str) == [i \in 1..Len(str) |-> LowerCaseChar(str[i])]

\* String::indexOf( value ) > -1, which is lodash includes on a string
includes(str, value) ==
    \E i \in 0..(Len(str) - Len(value)) : SubSeq(str, i + 1, i + Len(value)) = value

\* String::split( ',' ): the pieces between the commas, from left to right
RECURSIVE SplitFrom(_, _, _)
SplitFrom(str, i, piece) ==
    IF i > Len(str) THEN <<piece>>
    ELSE IF str[i] = "," THEN <<piece>> \o SplitFrom(str, i + 1, <<>>)
    ELSE SplitFrom(str, i + 1, Append(piece, str[i]))

split(str) == SplitFrom(str, 1, <<>>)

\* the values lodash some / every iterate: the elements of an array, the
\* property values of an object, nothing for undefined or null
ValuesOf(v) ==
    CASE v.t = "array" -> v.a
      [] v.t = "object" -> [i \in 1..Len(v.o) |-> v.o[i].v]
      [] OTHER -> <<>>

SEARCH_TAXONOMIES == <<"feature">>

\* 'theme_' + taxonomy
ThemeTaxonomyKey(taxonomy) ==
    CASE taxonomy = "feature" -> "theme_feature"
      [] taxonomy = "color" -> "theme_color"

\* field && includes( field.toLowerCase(), search ), as a boolean
FieldIncludes(field, search) ==
    Truthy(field) /\ includes(toLowerCase(field.s), search)

\* faulty variant: the fields are compared without lower-casing them
SearchConstraint_CaseSensitive(value, th) ==
    IF ~Truthy(value) THEN Bool(TRUE)
    ELSE IF value.t # "string" THEN Raised
    ELSE LET search == toLowerCase(value.s)
             terms == ValuesOf(Get(Get(th, "taxonomies"), "theme_feature"))
             Found(field) == Truthy(field) /\ includes(field.s, search)
         IN Bool(\/ \E i \in 1..Len(terms) : Found(Get(terms[i], "name"))
                 \/ Found(Get(th, "name"))
                 \/ Found(Get(th, "author"))
                 \/ Found(Get(th, "descriptionLong")))

\* case 'search' of the switch
SearchConstraint(value, th) ==
    IF ~Truthy(value) THEN Bool(TRUE)
    ELSE IF value.t # "string" THEN Raised
    ELSE LET search == toLowerCase(value.s)
             taxonomies == Get(th, "taxonomies")
             foundInTaxonomies ==
                \E n \in 1..Len(SEARCH_TAXONOMIES) :
                    /\ Truthy(taxonomies)
                    /\ LET terms == ValuesOf(Get(taxonomies, ThemeTaxonomyKey(SEARCH_TAXONOMIES[n])))
                       IN \E i \in 1..Len(terms) : FieldIncludes(Get(terms[i], "name"), search)
         IN Bool(\/ foundInTaxonomies
                 \/ FieldIncludes(Get(th, "name"), search)
                 \/ FieldIncludes(Get(th, "author"), search)
                 \/ FieldIncludes(Get(th, "descriptionLong"), search))

\* faulty variant: one of the required slugs is enough (some instead of every)
FilterConstraint_AnySlug(value, th) ==
    IF ~Truthy(value) THEN Bool(TRUE)
    ELSE IF value.t # "string" THEN Raised
    ELSE LET filters == split(value.s)
             taxonomies == ValuesOf(Get(th, "taxonomies"))
         IN Bool(\E n \in 1..Len(filters) :
                    \E x \in 1..Len(taxonomies) :
                        LET terms == ValuesOf(taxonomies[x])
                        IN \E i \in 1..Len(terms) : Get(terms[i], "slug") = Str(filters[n]))

\* case 'filter' of the switch
FilterConstraint(value, th) ==
    IF ~Truthy(value) THEN Bool(TRUE)
    ELSE IF value.t # "string" THEN Raised
    ELSE LET filters == split(value.s)
             taxonomies == ValuesOf(Get(th, "taxonomies"))
         IN Bool(\A n \in 1..Len(filters) :
                    \E x \in 1..Len(taxonomies) :
                        LET terms == ValuesOf(taxonomies[x])
                        IN \E i \in 1..Len(terms) : Get(terms[i], "slug") = Str(filters[n]))

\* faulty variant: the switch has a default case that rejects a truthy unknown option
QueryConstraint_RejectsUnknown(value, key, th) ==
    CASE key = K_search -> SearchConstraint(value, th)
      [] key = K_filter -> FilterConstraint(value, th)
      [] OTHER -> Bool(~Truthy(value))

\* the callback of every(): the switch on the key
QueryConstraint(value, key, th) ==
    CASE key = K_search -> SearchConstraint(value, th)
      [] key = K_filter -> FilterConstraint(value, th)
      [] OTHER -> Bool(TRUE)

\* { ...a, ...b }
RECURSIVE SpreadInto(_, _)
SpreadInto(o, pairs) ==
    IF pairs = <<>> THEN o
    ELSE SpreadInto(SetPair(o, Head(pairs).k, Head(pairs).v), Tail(pairs))

\* lodash every over the entries of the query: the first constraint that
\* fails ends it with false, one that throws ends it with the exception
RECURSIVE EveryConstraint(_, _)
EveryConstraint(pairs, th) ==
    IF pairs = <<>> THEN Bool(TRUE)
    ELSE LET r == QueryConstraint(Head(pairs).v, Head(pairs).k, th)
         IN IF r = Bool(TRUE) THEN EveryConstraint(Tail(pairs), th) ELSE r

isThemeMatchingQuery(q, th) ==
    LET queryWithDefaults == SpreadInto(DEFAULT_THEME_QUERY.o, OwnPairs(q))
    IN EveryConstraint(queryWithDefaults, th)

\* faulty variant: lodash reject instead of filter
filterThemesForJetpack_Reject(ths, q) ==
    LET NotMatching(th) == isThemeMatchingQuery(q, th) # Bool(TRUE)
    IN Arr(SelectSeq(ths.a, NotMatching))

\* lodash filter with the matcher as its predicate; an exception in the
\* predicate is the caller's
filterThemesForJetpack(ths, q) ==
    LET Matching(th) == isThemeMatchingQuery(q, th) = Bool(TRUE)
    IN IF \E i \in 1..Len(ths.a) : isThemeMatchingQuery(q, ths.a[i]) = Raised
       THEN Raised
       ELSE Arr(SelectSeq(ths.a, Matching))

-----------------------------------------------------------------------------
(* The theme normalizers *)

\* lodash map( tags, slug => ( { slug } ) )
SlugTerms(tags) ==
    LET values == ValuesOf(tags)
    IN Arr([i \in 1..Len(values) |-> Obj(<<Pair("slug", values[i])>>)])

\* faulty variant: the tags are left in the normalized theme
normalizeJetpackTheme_KeepsTags(th0) ==
    LET th == IF th0.t = "undefined" THEN Obj(<<>>) ELSE th0 IN
    IF ~Truthy(Get(th, "tags")) THEN th
    ELSE Obj(SetPair(th.o, "taxonomies",
                     Obj(<<Pair("theme_feature", SlugTerms(Get(th, "tags")))>>)))

normalizeJetpackTheme(th0) ==
    LET th == IF th0.t = "undefined" THEN Obj(<<>>) ELSE th0 IN
    IF ~Truthy(Get(th, "tags")) THEN th
    ELSE Obj(SetPair(omit(th, "tags").o, "taxonomies",
                     Obj(<<Pair("theme_feature", SlugTerms(Get(th, "tags")))>>)))

\* a function value, by the name it was defined with
Function(name) == [t |-> "function", name |-> name]

\* a string value that is only ever used as a property name
Name(key) == [t |-> "string", name |-> key]

\* what an object literal such as attributesMap inherits from Object.prototype
ObjectPrototype ==
    <<Pair("constructor", Function("Object")),
      Pair("__defineGetter__", Function("__defineGetter__")),
      Pair("__defineSetter__", Function("__defineSetter__")),
      Pair("hasOwnProperty", Function("hasOwnProperty")),
      Pair("__lookupGetter__", Function("__lookupGetter__")),
      Pair("__lookupSetter__", Function("__lookupSetter__")),
      Pair("isPrototypeOf", Function("isPrototypeOf")),
      Pair("propertyIsEnumerable", Function("propertyIsEnumerable")),
      Pair("toString", Function("toString")),
      Pair("valueOf", Function("valueOf")),
      Pair("__proto__", Obj(<<>>)),
      Pair("toLocaleString", Function("toLocaleString"))>>

\* lodash get( object, key, defaultValue ) with a one-segment path on an
\* object literal or a theme: object[ key ], looked up along the prototype
\* chain, and the default when that is undefined or the object is nullish
get(object, key, defaultValue) ==
    LET found == IF object.t \in {"undefined", "null"} THEN Undefined
                 ELSE IF HasKey(object, key) THEN Get(object, key)
                 ELSE IF key \in Keys(ObjectPrototype) THEN Get(Obj(ObjectPrototype), key)
                 ELSE Undefined
    IN IF found = Undefined THEN defaultValue ELSE found

\* ToPropertyKey of what the iteratee of mapKeys returned: a string is the
\* key, a built-in function gives its source text, an object [object Object]
ToPropertyKey(v) ==
    CASE v.t = "string" -> v.name
      [] v.t = "function" -> "function " \o v.name \o "() { [native code] }"
      [] v.t = "object" -> "[object Object]"

\* lodash mapKeys( theme, ( value, key ) => get( attributesMap, key, key ) ):
\* mapped[ newKey ] = value for each own property in turn, so of two
\* properties that get the same new key the later one's value stays, at the
\* earlier one's position; nothing is iterated for undefined or null
RECURSIVE mapKeysInto(_, _, _)
mapKeysInto(mapped, pairs, attributesMap) ==
    IF pairs = <<>> THEN mapped
    ELSE LET key == Head(pairs).k
             newKey == ToPropertyKey(get(attributesMap, key, Name(key)))
         IN mapKeysInto(SetPair(mapped, newKey, Head(pairs).v), Tail(pairs), attributesMap)

mapKeys(object, attributesMap) == Obj(mapKeysInto(<<>>, OwnPairs(object), attributesMap))

attributesMap_Wpcom ==
    Obj(<<Pair("description_long", Name("descriptionLong")),
          Pair("support_documentation", Name("supportDocumentation")),
          Pair("download_uri", Name("download"))>>)

normalizeWpcomTheme(th) == mapKeys(th, attributesMap_Wpcom)

attributesMap_Wporg ==
    Obj(<<Pair("slug", Name("id")),
          Pair("preview_url", Name("demo_uri")),
          Pair("screenshot_url", Name("screenshot")),
          Pair("download_link", Name("download"))>>)

\* lodash map( tags, ( name, slug ) => ( { name, slug } ) ): for an object the
\* second argument is the property's key, for an array the index
NamedTerms(tags) ==
    LET pairs == OwnPairs(tags)
        Slug(i) == IF tags.t = "array" THEN Num(i - 1) ELSE Str(pairs[i].k)
    IN Arr([i \in 1..Len(pairs) |-> Obj(<<Pair("name", pairs[i].v), Pair("slug", Slug(i))>>)])

normalizeWporgTheme(th) ==
    LET normalizedTheme == mapKeys(th, attributesMap_Wporg) IN
    IF ~Truthy(Get(normalizedTheme, "tags")) THEN normalizedTheme
    ELSE Obj(SetPair(omit(normalizedTheme, "tags").o, "taxonomies",
                     Obj(<<Pair("theme_feature", NamedTerms(Get(normalizedTheme, "tags")))>>)))

-----------------------------------------------------------------------------
(* The premium classifier *)

PremiumPrefix == <<"p", "r", "e", "m", "i", "u", "m", "/">>

\* lodash toString: a string as it is, a number in decimal, '' for nullish
toString(v) ==
    CASE v.t = "string" -> v.s
      [] v.t = "number" -> NumberToString(v.n)
      [] v.t \in {"undefined", "null"} -> <<>>

\* lodash startsWith( string, target ) from position 0
startsWith(string, target) ==
    LET s == toString(string)
    IN Len(s) >= Len(target) /\ SubSeq(s, 1, Len(target)) = target

\* themeStylesheet && startsWith( ... ): a falsy stylesheet (false for a
\* missing one) is itself what is returned
isPremium(th) ==
    LET themeStylesheet == get(th, "stylesheet", Bool(FALSE))
    IN IF ~Truthy(themeStylesheet) THEN themeStylesheet
       ELSE Bool(startsWith(themeStylesheet, PremiumPrefix))

\* faulty variant: the cost of the theme is not looked at
isPremiumTheme_IgnoresCost(th) ==
    IF ~Truthy(th) THEN Bool(FALSE)
    ELSE Bool(/\ Truthy(Get(th, "stylesheet"))
              /\ startsWith(Get(th, "stylesheet"), PremiumPrefix))

isPremiumTheme(th) ==
    IF ~Truthy(th) THEN Bool(FALSE)
    ELSE IF /\ Truthy(Get(th, "stylesheet"))
            /\ startsWith(Get(th, "stylesheet"), PremiumPrefix)
         THEN Bool(TRUE)
    ELSE Bool(/\ Truthy(Get(th, "cost"))
              /\ Truthy(Get(Get(th, "cost"), "number")))

-----------------------------------------------------------------------------
(* The ad-tracking module *)

\* the scripts loadTrackingScripts hands to async.parallel, in its order
TrackingScripts == <<"facebook", "google", "bing", "criteo", "quantcast">>

ScriptNames == {TrackingScripts[i] : i \in 1..Len(TrackingScripts)}

\* the currencies EXCHANGE_RATES has a rate for
EXCHANGE_RATES == {"USD", "EUR", "JPY", "AUD", "CAD", "GBP"}

isSupportedCurrency(currency) == currency \in EXCHANGE_RATES

\* the globals once the module is loaded: the queue of the Facebook stub, the
\* Bing, Criteo and Quantcast queues, and the two globals that the Google and
\* the Bing script define when they run; conversions holds the calls of
\* google_trackConversion
WindowGlobals ==
    [fbq |-> <<>>, uetq |-> <<>>, criteo_q |-> <<>>, qevents |-> <<>>,
     google_trackConversion |-> FALSE, conversions |-> <<>>, UET |-> FALSE]

\* the module variables and globals after the module is loaded
ModuleLoaded ==
    /\ hasStartedFetchingScripts = FALSE
    /\ hasFinishedFetchingScripts = FALSE
    /\ retargetingInitialized = FALSE
    /\ scripts = [u \in ScriptNames |-> "idle"]
    /\ parallel = NoValue
    /\ window = WindowGlobals
    /\ calls = <<>>

\* the mutable state of the module as one value, for the functions that
\* change it
Module ==
    [hasStartedFetchingScripts |-> hasStartedFetchingScripts,
     hasFinishedFetchingScripts |-> hasFinishedFetchingScripts,
     retargetingInitialized |-> retargetingInitialized,
     scripts |-> scripts, parallel |-> parallel, window |-> window]

\* what one tracker was told: the event and the exported call it came from
\* (0 for what the module does of its own)
Event(name, call) == [event |-> name, call |-> call]

\* queue.push( event ), or a call of the tracker's function
Push(m, queue, event) == [m EXCEPT !.window[queue] = Append(@, event)]

\* lodash some( collection ) with the identity as predicate: one truthy own
\* enumerable value; nothing is iterated for a nullish collection
some(collection) ==
    \E i \in 1..Len(ValuesOf(collection)) : Truthy(ValuesOf(collection)[i])

\* hasStartedFetchingScripts = true; async.parallel( [ five loadScript
\* tasks ], final callback ): every task is started, the callback is kept
loadTrackingScripts(m, callback) ==
    [m EXCEPT !.hasStartedFetchingScripts = TRUE,
              !.scripts = [u \in ScriptNames |-> "loading"],
              !.parallel = [callback |-> callback, called |-> FALSE]]

\* faulty variant: retargeting does not wait for the scripts to be fetched
retarget_IgnoresFinished(m, call) ==
    IF ~m.hasStartedFetchingScripts
    THEN loadTrackingScripts(m, [fn |-> "retarget", call |-> call])
    ELSE IF ~m.retargetingInitialized
    THEN LET initialized == Push([m EXCEPT !.retargetingInitialized = TRUE],
                                 "fbq", Event("PageView", call))
         IN IF initialized.window.google_trackConversion
            THEN Push(initialized, "conversions", Event("remarketing", call))
            ELSE initialized
    ELSE m

retarget(m, call) ==
    IF ~m.hasStartedFetchingScripts
    THEN loadTrackingScripts(m, [fn |-> "retarget", call |-> call])
    ELSE IF m.hasFinishedFetchingScripts /\ ~m.retargetingInitialized
    THEN LET initialized == Push([m EXCEPT !.retargetingInitialized = TRUE],
                                 "fbq", Event("PageView", call))
         IN IF initialized.window.google_trackConversion
            THEN Push(initialized, "conversions", Event("remarketing", call))
            ELSE initialized
    ELSE m

\* user is whether user.get() gives a user when the events are built
recordInCriteo(m, eventName, call, user) ==
    IF ~adTracking THEN m
    ELSE IF ~m.hasStartedFetchingScripts
    THEN loadTrackingScripts(m, [fn |-> "recordInCriteo", eventName |-> eventName,
                                 call |-> call])
    ELSE LET events == <<Event("setAccount", call), Event("setSiteType", call)>>
                       \o (IF user THEN <<Event("setEmail", call)>> ELSE <<>>)
                       \o <<Event(eventName, call)>>
         IN [m EXCEPT !.window.criteo_q = @ \o events]

recordAddToCart(m, call, user) ==
    IF ~adTracking THEN m
    ELSE IF ~m.hasStartedFetchingScripts
    THEN loadTrackingScripts(m, [fn |-> "recordAddToCart", call |-> call])
    ELSE recordInCriteo(Push(m, "fbq", Event("AddToCart", call)), "viewItem", call, user)

\* of the product only the currency decides what is done
recordPurchase(m, currency, call) ==
    IF ~adTracking THEN m
    ELSE IF ~m.hasStartedFetchingScripts
    THEN loadTrackingScripts(m, [fn |-> "recordPurchase", currency |-> currency,
                                 call |-> call])
    ELSE LET facebook == Push(m, "fbq", Event("Purchase", call))
             bing == IF isSupportedCurrency(currency)
                     THEN Push(facebook, "uetq", Event("purchase", call))
                     ELSE facebook
             google == IF bing.window.google_trackConversion
                       THEN Push(bing, "conversions", Event("purchase", call))
                       ELSE bing
         IN IF isSupportedCurrency(currency)
            THEN Push(google, "qevents", Event("refresh", call))
            ELSE google

\* callback(): the function that was handed to loadTrackingScripts, with the
\* arguments bound to it
Call(m, callback, user) ==
    CASE callback.fn = "retarget" -> retarget(m, callback.call)
      [] callback.fn = "recordInCriteo" ->
            recordInCriteo(m, callback.eventName, callback.call, user)
      [] callback.fn = "recordAddToCart" -> recordAddToCart(m, callback.call, user)
      [] callback.fn = "recordPurchase" ->
            recordPurchase(m, callback.currency, callback.call)

\* faulty variant: the errors are not looked at
onFetched_IgnoresErrors(m, errors, user) ==
    LET facebook == Push(m, "fbq", Event("init", 0))
        bing == IF facebook.window.UET THEN Push(facebook, "uetq", Event("pageLoad", 0))
                ELSE facebook
        finished == [bing EXCEPT !.hasFinishedFetchingScripts = TRUE]
    IN Call(finished, m.parallel.callback, user)

\* the final callback of async.parallel: function( errors ) { ... }
onFetched(m, errors, user) ==
    IF ~some(errors)
    THEN LET facebook == Push(m, "fbq", Event("init", 0))
             bing == IF facebook.window.UET
                     THEN Push(facebook, "uetq", Event("pageLoad", 0))
                     ELSE facebook
             finished == [bing EXCEPT !.hasFinishedFetchingScripts = TRUE]
         IN Call(finished, m.parallel.callback, user)
    ELSE m

\* async.parallel, when the task of script u calls its onComplete( err ): the
\* final callback is called with the first error at once, or without an
\* error after the last task, and never a second time
onComplete(m, u, err, user) ==
    LET loaded == [m EXCEPT !.scripts[u] = IF Truthy(err) THEN "failed" ELSE "loaded"]
    IN IF m.parallel.called THEN loaded
       ELSE IF Truthy(err)
       THEN onFetched([loaded EXCEPT !.parallel.called = TRUE], err, user)
       ELSE IF \A v \in ScriptNames : loaded.scripts[v] = "loaded"
       THEN onFetched([loaded EXCEPT !.parallel.called = TRUE], err, user)
       ELSE loaded

-----------------------------------------------------------------------------
(* Inputs of the canonicalizer *)

\* the sequences over S of length at most n
RECURSIVE SeqsUpTo(_, _)
SeqsUpTo(S, n) ==
    IF n = 0 THEN {<<>>}
    ELSE LET shorter == SeqsUpTo(S, n - 1)
         IN shorter \cup {Append(x, c) : x \in shorter, c \in S}

Reverse(x) == [i \in 1..Len(x) |-> x[Len(x) + 1 - i]]

\* characters of option values: a letter, the two characters JSON escapes, a
\* control character and U+2028
QueryChars == {"a", QUOTE, BACKSLASH, NL, LS}

SearchValues == {Undefined} \cup {Str(x) : x \in SeqsUpTo(QueryChars, MaxStrLen)}
FilterValues == {Str(<<>>), Str(<<"a">>)}
PageValues == {Undefined, Null, Num(1), Num(2)}
UnknownOptionValues == {Undefined, Num(0)}

\* an object of the given pairs, the NoValue ones left out
ObjectOf(pairs) ==
    LET Present(p) == p.v # NoValue IN Obj(SelectSeq(pairs, Present))

\* query objects: each option absent or present, in either key order
Queries ==
    LET ordered == { ObjectOf(<<Pair(K_search, a), Pair(K_filter, b), Pair(K_page, c),
                                Pair(K_x, d)>>) :
                        a \in SearchValues \cup {NoValue},
                        b \in FilterValues \cup {NoValue},
                        c \in PageValues \cup {NoValue},
                        d \in UnknownOptionValues \cup {NoValue} }
    IN ordered \cup {Obj(Reverse(q.o)) : q \in ordered}

SiteIds == {Undefined, Null} \cup {Num(n) : n \in 0..MaxSiteId}

\* characters of raw keys: digits, the colon, JSON punctuation, a letter and
\* U+2028
KeyChars == {"0", "1", ":", "{", "}", QUOTE, "a", LS}

RawKeys == {Str(x) : x \in SeqsUpTo(KeyChars, MaxKeyLen)}

-----------------------------------------------------------------------------
(* The canonicalizer as a state machine: a caller holds either a query and a *)
(* site id, or a key it stored earlier                                       *)

InitQuery ==
    /\ adTracking = FALSE
    /\ ModuleLoaded
    /\ DEFAULT_THEME_QUERY \in DefaultThemeQueries
    /\ op = "init"
    /\ \/ /\ query \in Queries
          /\ siteId \in SiteIds
          /\ serializedQuery = NoValue
       \/ /\ query = NoValue
          /\ siteId = NoValue
          /\ serializedQuery \in RawKeys
    /\ result = NoValue
    /\ theme = NoValue
    /\ themes = NoValue

GetNormalizedThemesQuery ==
    /\ query # NoValue
    /\ op' = "getNormalizedThemesQuery"
    /\ result' = getNormalizedThemesQuery(query)
    /\ serializedQuery' = NoValue
    /\ UNCHANGED <<adTrackingVars, DEFAULT_THEME_QUERY, query, siteId, theme, themes>>

\* the key is kept, as the store keeps it, for a later lookup
GetSerializedThemesQuery ==
    /\ query # NoValue
    /\ op' = "getSerializedThemesQuery"
    /\ result' = getSerializedThemesQuery(query, siteId)
    /\ serializedQuery' = result'
    /\ UNCHANGED <<adTrackingVars, DEFAULT_THEME_QUERY, query, siteId, theme, themes>>

GetSerializedThemesQueryWithoutPage ==
    /\ query # NoValue
    /\ op' = "getSerializedThemesQueryWithoutPage"
    /\ result' = getSerializedThemesQueryWithoutPage(query, siteId)
    /\ serializedQuery' = NoValue
    /\ UNCHANGED <<adTrackingVars, DEFAULT_THEME_QUERY, query, siteId, theme, themes>>

GetDeserializedThemesQueryDetails ==
    /\ serializedQuery # NoValue
    /\ op' = "getDeserializedThemesQueryDetails"
    /\ result' = getDeserializedThemesQueryDetails(serializedQuery)
    /\ UNCHANGED <<adTrackingVars, DEFAULT_THEME_QUERY, query, siteId, serializedQuery, theme, themes>>

NextQuery ==
    \/ GetNormalizedThemesQuery
    \/ GetSerializedThemesQuery
    \/ GetSerializedThemesQueryWithoutPage
    \/ GetDeserializedThemesQueryDetails

SpecQuery == InitQuery /\ [][NextQuery]_vars

-----------------------------------------------------------------------------
(* Properties of the canonicalizer *)

\* deep equality of two values: objects by their key sets and, key by key,
\* their values, whatever the order of the keys
RECURSIVE DeepEqual(_, _)
DeepEqual(a, b) ==
    IF a.t = "object" /\ b.t = "object"
    THEN /\ Keys(a.o) = Keys(b.o)
         /\ \A key \in Keys(a.o) : DeepEqual(Get(a, key), Get(b, key))
    ELSE a = b

IsPositiveInteger(v) == v.t = "number" /\ v.n > 0

\* the length of the "<site id>:" prefix that a truthy site id puts on a key
PrefixLength(s) == IF Truthy(s) THEN Len(StringOf(s)) + 1 ELSE 0

\* the JSON payload of a key built for site id s
Payload(key, s) == Str(SubSeq(key.s, PrefixLength(s) + 1, Len(key.s)))

\* C1: round trip.  Deserializing the key that getSerializedThemesQuery built
\* for query and siteId gives a query that, normalized again, deep-equals the
\* normalized query, and gives back siteId when it is a positive integer.
RoundTrip ==
    (op = "getDeserializedThemesQueryDetails" /\ query # NoValue) =>
        /\ DeepEqual(getNormalizedThemesQuery(result.query), getNormalizedThemesQuery(query))
        /\ IsPositiveInteger(siteId) => result.siteId = siteId

\* the default query's own value for a key equals value (a primitive)
IsDefaultValue(key, value) ==
    \E i \in 1..Len(DEFAULT_THEME_QUERY.o) :
        /\ DEFAULT_THEME_QUERY.o[i].k = key
        /\ DEFAULT_THEME_QUERY.o[i].v = value

\* the result holds exactly these keys of the query, with their values
KeepsExactly(kept) ==
    /\ result.t = "object"
    /\ Keys(result.o) = kept
    /\ \A key \in Keys(result.o) : Get(result, key) = Get(query, key)

\* C2 as stated: the normalized query keeps exactly the keys whose value is
\* not strictly equal to the default query's value for that key, and a key
\* that the default query does not have is always kept.
NormalizedKeepsAbsentKeys ==
    op = "getNormalizedThemesQuery" =>
        KeepsExactly({key \in Keys(query.o) :
                        \/ ~HasKey(DEFAULT_THEME_QUERY, key)
                        \/ ~IsDefaultValue(key, Get(query, key))})

\* C2 as amended: the normalized query keeps exactly the keys whose value is
\* not strictly equal to what the default query yields for that key, which
\* is undefined for a key it does not have: such a key is kept unless its
\* value is undefined.
NormalizedKeepsNonDefault ==
    op = "getNormalizedThemesQuery" =>
        KeepsExactly({key \in Keys(query.o) :
                        IF HasKey(DEFAULT_THEME_QUERY, key)
                        THEN ~IsDefaultValue(key, Get(query, key))
                        ELSE Get(query, key) # Undefined})

\* C2 witness: a query with a default value, a non-default value and an
\* undefined value under a key the default query does not have
NormalizedWitness ==
    /\ op = "getNormalizedThemesQuery"
    /\ Keys(query.o) = {K_search, K_filter, K_x}
    /\ Get(query, K_x) = Undefined
    /\ Get(query, K_filter) = Str(<<>>)
    /\ Get(query, K_search) = Str(<<"a">>)
    /\ Keys(result.o) = {K_search}

\* the leading digits-then-colon prefix of a string ends at e (0: none)
SitePrefixEnd(str) ==
    IF \E e \in 2..Len(str) : str[e] = ":" /\ \A i \in 1..(e - 1) : str[i] \in DigitSet
    THEN CHOOSE e \in 2..Len(str) : str[e] = ":" /\ \A i \in 1..(e - 1) : str[i] \in DigitSet
    ELSE 0

\* C3: for every input string the result is {siteId, query}, never an
\* exception; siteId is the positive value of the leading digits-then-colon
\* prefix or undefined; query is the JSON-parsed remainder, or undefined when
\* the remainder is not valid JSON.
DeserializedDetails ==
    op = "getDeserializedThemesQueryDetails" =>
        LET str == serializedQuery.s
            e == SitePrefixEnd(str)
            remainder == Str(SubSeq(str, e + 1, Len(str)))
            parsed == JSONparse(remainder)
        IN /\ result # Raised
           /\ \/ result.siteId = Undefined
              \/ /\ e > 0
                 /\ IsPositiveInteger(result.siteId)
                 /\ result.siteId.n = DigitsToNat(SubSeq(str, 1, e - 1))
           /\ result.query = (IF parsed = Raised THEN Undefined ELSE parsed)

\* C4: the payload of the key built by getSerializedThemesQueryWithoutPage
\* decodes to an object without a page key, and that object is what the
\* payload of getSerializedThemesQuery's key decodes to, less its page key.
WithoutPageHasNoPage ==
    op = "getSerializedThemesQueryWithoutPage" =>
        LET decoded == JSONparse(Payload(result, siteId))
            full == JSONparse(Payload(getSerializedThemesQuery(query, siteId), siteId))
        IN /\ decoded.t = "object"
           /\ ~HasKey(decoded, K_page)
           /\ full.t = "object"
           /\ decoded.o = omit(full, K_page).o

\* C4 witness: a query with a non-default page and another option, under a
\* site id
WithoutPageWitness ==
    /\ op = "getSerializedThemesQueryWithoutPage"
    /\ Get(query, K_page) = Num(2)
    /\ Get(query, K_search) = Str(<<"a">>)
    /\ siteId = Num(MaxSiteId)
    /\ JSONparse(Payload(result, siteId)) = Obj(<<Pair(K_search, Str(<<"a">>))>>)

\* C5: serializing the normalized query gives the key that serializing the
\* query itself gave.
SerializeIdempotent ==
    op = "getSerializedThemesQuery" =>
        getSerializedThemesQuery(getNormalizedThemesQuery(query), siteId) = result

\* C5 witness: a query that normalization changes, under a site id
SerializeIdempotentWitness ==
    /\ op = "getSerializedThemesQuery"
    /\ Get(query, K_filter) = Str(<<>>)
    /\ Get(query, K_search) = Str(<<"a">>)
    /\ getNormalizedThemesQuery(query) # query
    /\ siteId = Num(1)
    /\ result = Str(<<"1", ":", "{", QUOTE>> \o K_search \o <<QUOTE, ":", QUOTE, "a", QUOTE, "}">>)

-----------------------------------------------------------------------------
(* Inputs of the matcher *)

\* a term: a slug and, unless it came from a Jetpack site, a name
Term(slug, name) == ObjectOf(<<Pair("slug", Str(slug)), Pair("name", name)>>)

FeatureTerms ==
    { Term(slug, name) : slug \in {<<"p">>, <<"q">>, <<"p", "q">>},
                         name \in {NoValue, Str(<<"A", "x">>)} }

FeatureLists == {Arr(x) : x \in SeqsUpTo(FeatureTerms, MaxTerms)}

ColorLists == {Arr(<<Term(<<"q">>, NoValue)>>), Arr(<<Term(<<"p">>, Str(<<"E", "x">>))>>)}

TaxonomiesValues ==
    {NoValue} \cup
    { ObjectOf(<<Pair("theme_feature", f), Pair("theme_color", c)>>) :
        f \in FeatureLists \cup {NoValue}, c \in ColorLists \cup {NoValue} }

\* normalized theme objects: every field present or missing
Themes ==
    { ObjectOf(<<Pair("name", n), Pair("author", a), Pair("descriptionLong", d),
                 Pair("taxonomies", x)>>) :
        n \in {NoValue, Str(<<"B", "x">>)},
        a \in {NoValue, Str(<<"C", "x">>)},
        d \in {NoValue, Str(<<"D", "x">>)},
        x \in TaxonomiesValues }

\* the themes of the arrays that are filtered
ListedThemes ==
    { Obj(<<Pair("name", Str(<<"B", "x">>))>>),
      Obj(<<Pair("taxonomies", Obj(<<Pair("theme_feature", Arr(<<Term(<<"p">>, NoValue)>>))>>))>>),
      Obj(<<Pair("name", Str(<<"B", "x">>)),
            Pair("taxonomies", Obj(<<Pair("theme_feature",
                Arr(<<Term(<<"q">>, Str(<<"A", "x">>)), Term(<<"p">>, NoValue)>>))>>))>>) }

ThemeLists == {Arr(x) : x \in SeqsUpTo(ListedThemes, MaxThemes)}

MatchSearchValues ==
    {Undefined} \cup
    {Str(x) : x \in {<<>>, <<"a">>, <<"b">>, <<"c">>, <<"d">>, <<"e">>, <<"X">>, <<"x", "a">>}}

MatchFilterValues ==
    {Undefined} \cup
    {Str(x) : x \in {<<>>, <<"p">>, <<"q">>, <<"p", ",", "q">>, <<"p", ",">>, <<"p", "q">>}}

\* an option the matcher does not know, missing or present
MatchPageValues == {NoValue, Num(2)}

MatchQuery(page, search, filter) ==
    ObjectOf(<<Pair(K_page, page), Pair(K_search, search), Pair(K_filter, filter)>>)

MatchQueries ==
    { MatchQuery(c, a, b) : a \in MatchSearchValues \cup {NoValue},
                            b \in MatchFilterValues \cup {NoValue},
                            c \in MatchPageValues }

-----------------------------------------------------------------------------
(* The matcher as a state machine: a caller holds a query and either one     *)
(* theme or the array of themes a Jetpack site returned                      *)

InitMatch ==
    /\ adTracking = FALSE
    /\ ModuleLoaded
    /\ DEFAULT_THEME_QUERY \in DefaultThemeQueries
    /\ op = "init"
    /\ query \in MatchQueries
    /\ siteId = NoValue
    /\ serializedQuery = NoValue
    /\ result = NoValue
    /\ \/ theme \in Themes /\ themes = NoValue
       \/ theme = NoValue /\ themes \in ThemeLists

IsThemeMatchingQuery ==
    /\ theme # NoValue
    /\ op' = "isThemeMatchingQuery"
    /\ result' = isThemeMatchingQuery(query, theme)
    /\ UNCHANGED <<adTrackingVars, DEFAULT_THEME_QUERY, query, siteId, serializedQuery, theme, themes>>

FilterThemesForJetpack ==
    /\ themes # NoValue
    /\ op' = "filterThemesForJetpack"
    /\ result' = filterThemesForJetpack(themes, query)
    /\ UNCHANGED <<adTrackingVars, DEFAULT_THEME_QUERY, query, siteId, serializedQuery, theme, themes>>

NextMatch ==
    \/ IsThemeMatchingQuery
    \/ FilterThemesForJetpack

SpecMatch == InitMatch /\ [][NextMatch]_vars

-----------------------------------------------------------------------------
(* Properties of the matcher *)

\* the value the matcher sees for an option: the query's own, else the default
Effective(q, key) == IF HasKey(q, key) THEN Get(q, key) ELSE Get(DEFAULT_THEME_QUERY, key)

IsBoolean(v) == v \in {Bool(TRUE), Bool(FALSE)}

\* the comma-free stretches of str that are bounded by commas or by its ends
RequiredSlugs(str) ==
    { SubSeq(str, w[1], w[2] - 1) :
        w \in { w \in (1..(Len(str) + 1)) \X (1..(Len(str) + 1)) :
                  /\ w[1] <= w[2]
                  /\ w[1] = 1 \/ str[w[1] - 1] = ","
                  /\ w[2] = Len(str) + 1 \/ str[w[2]] = ","
                  /\ \A n \in w[1]..(w[2] - 1) : str[n] # "," } }

\* the terms of one taxonomy of a theme, of all its taxonomies for "any"
ThemeTerms(th, taxonomy) ==
    LET taxonomies == Get(th, "taxonomies") IN
    IF taxonomies.t # "object" THEN {}
    ELSE UNION { {p.v.a[i] : i \in 1..Len(p.v.a)} :
                    p \in {taxonomies.o[x] : x \in {y \in 1..Len(taxonomies.o) :
                                taxonomy \in {"any", taxonomies.o[y].k}}} }

IsSubstring(x, y) ==
    \E from \in 1..(Len(y) + 1) : \E to \in (from - 1)..Len(y) : SubSeq(y, from, to) = x

FilterSatisfied(q, th) ==
    LET value == Effective(q, K_filter) IN
    \/ ~Truthy(value)
    \/ \A slug \in RequiredSlugs(value.s) :
            \E term \in ThemeTerms(th, "any") : Get(term, "slug") = Str(slug)

SearchSatisfied(q, th) ==
    LET value == Effective(q, K_search)
        searched == {Get(term, "name") : term \in ThemeTerms(th, "theme_feature")}
                        \cup {Get(th, "name"), Get(th, "author"), Get(th, "descriptionLong")}
    IN \/ ~Truthy(value)
       \/ \E field \in searched :
            /\ field.t = "string"
            /\ IsSubstring(toLowerCase(value.s), toLowerCase(field.s))

\* C6: the filter constraint.  A falsy filter is satisfied; otherwise every
\* slug between the commas must be the slug of some term of some taxonomy of
\* the theme.  The matcher never accepts a theme that fails it, decides by it
\* alone when there is nothing to search for, and does not raise.
FilterConstraintDecides ==
    op = "isThemeMatchingQuery" =>
        /\ IsBoolean(result)
        /\ result = Bool(TRUE) => FilterSatisfied(query, theme)
        /\ ~Truthy(Effective(query, K_search)) =>
                (result = Bool(TRUE) <=> FilterSatisfied(query, theme))

\* C6 witness: both p and q are required and the theme has only p
FilterConstraintWitness ==
    /\ op = "isThemeMatchingQuery"
    /\ Get(query, K_filter) = Str(<<"p", ",", "q">>)
    /\ ~Truthy(Effective(query, K_search))
    /\ {Get(term, "slug") : term \in ThemeTerms(theme, "any")} = {Str(<<"p">>)}
    /\ result = Bool(FALSE)

\* C7: the search constraint.  A falsy search is satisfied; otherwise the
\* lower-cased search term must be a substring of the lower-cased name of a
\* theme_feature term, or of the theme's name, author or descriptionLong; a
\* missing field matches nothing.  The matcher never accepts a theme that
\* fails it, decides by it alone when there is no filter, and does not raise.
SearchConstraintDecides ==
    op = "isThemeMatchingQuery" =>
        /\ IsBoolean(result)
        /\ result = Bool(TRUE) => SearchSatisfied(query, theme)
        /\ ~Truthy(Effective(query, K_filter)) =>
                (result = Bool(TRUE) <=> SearchSatisfied(query, theme))

\* C7 witness: an upper-case search term found only in the name of a feature
\* term, in a theme without name, author and description
SearchConstraintWitness ==
    /\ op = "isThemeMatchingQuery"
    /\ Get(query, K_search) = Str(<<"X">>)
    /\ ~Truthy(Effective(query, K_filter))
    /\ Keys(theme.o) = {"taxonomies"}
    /\ \E term \in ThemeTerms(theme, "theme_feature") : Get(term, "name") = Str(<<"A", "x">>)
    /\ result = Bool(TRUE)

\* the ways a query can give an option this effective value: by holding it,
\* or by leaving the option out when it is the default
WaysToGive(key, value) ==
    {value} \cup (IF Get(DEFAULT_THEME_QUERY, key) = value THEN {NoValue} ELSE {})

\* the queries of MatchQueries that agree with q on search and filter, a
\* missing one counting as its default
AgreeingQueries(q) ==
    { MatchQuery(c, a, b) : a \in WaysToGive(K_search, Effective(q, K_search)),
                            b \in WaysToGive(K_filter, Effective(q, K_filter)),
                            c \in MatchPageValues }

\* C8: the result depends only on search and filter: every query that agrees
\* with this one on the two, a missing one counting as its default, gets the
\* same result for this theme.
OnlySearchAndFilterMatter ==
    op = "isThemeMatchingQuery" =>
        \A other \in AgreeingQueries(query) : isThemeMatchingQuery(other, theme) = result

\* C8 witness: a query that carries a page, leaves search to its default and
\* filters out the theme
OnlySearchAndFilterWitness ==
    /\ op = "isThemeMatchingQuery"
    /\ Get(query, K_page) = Num(2)
    /\ ~HasKey(query, K_search)
    /\ Get(query, K_filter) = Str(<<"q">>)
    /\ result = Bool(FALSE)
    /\ \E other \in MatchQueries :
            /\ ~HasKey(other, K_page)
            /\ Get(other, K_search) = Str(<<>>)
            /\ Get(other, K_filter) = Str(<<"q">>)
            /\ isThemeMatchingQuery(other, theme) = result

\* the indices of the themes that match
MatchingIndices(ths, q) ==
    {i \in 1..Len(ths.a) : isThemeMatchingQuery(q, ths.a[i]) = Bool(TRUE)}

\* C9: filterThemesForJetpack returns a new array that holds exactly the
\* themes that match, in the order they have in the input, and leaves the
\* input array as it was.
FilterKeepsMatchingInOrder ==
    [][ op' = "filterThemesForJetpack" =>
            LET I == MatchingIndices(themes, query) IN
            /\ themes' = themes
            /\ result'.t = "array"
            /\ Len(result'.a) = Cardinality(I)
            /\ \A i \in I : result'.a[Cardinality({j \in I : j <= i})] = themes.a[i] ]_vars

\* C9 witness: of three themes the first and the third, which differ, match
FilterKeepsMatchingWitness ==
    /\ op = "filterThemesForJetpack"
    /\ Len(themes.a) = 3
    /\ MatchingIndices(themes, query) = {1, 3}
    /\ themes.a[1] # themes.a[3]
    /\ result = Arr(<<themes.a[1], themes.a[3]>>)

-----------------------------------------------------------------------------
(* The normalizers as a state machine: a caller holds a theme as an API     *)
(* returned it                                                               *)

TagSlugs == {Str(<<"p">>), Str(<<"q">>), Str(<<"r">>)}

\* themes as a Jetpack site returns them: tags missing, null or an array of
\* slugs; a taxonomies field is not expected from such a site but not ruled
\* out either
JetpackThemes ==
    { ObjectOf(<<Pair("id", i), Pair("tags", g), Pair("name", n), Pair("taxonomies", x)>>) :
        i \in {NoValue, Str(<<"t">>)},
        g \in {NoValue, Null} \cup {Arr(y) : y \in SeqsUpTo(TagSlugs, MaxTags)},
        n \in {NoValue, Str(<<"B", "x">>)},
        x \in {NoValue, Obj(<<Pair("theme_color", Arr(<<Term(<<"q">>, Str(<<"E", "x">>))>>))>>)} }

\* the display name WordPress.org gives each tag; two tags share theirs
TagName(slug) == IF slug = <<"q">> THEN Str(<<"E", "x">>) ELSE Str(<<"A", "x">>)

\* tags as WordPress.org returns them: a mapping from slug to display name
TagMappings ==
    { Obj([i \in 1..Len(x) |-> Pair(x[i].s, TagName(x[i].s))]) :
        x \in { y \in SeqsUpTo(TagSlugs, MaxTags) :
                  \A i, j \in 1..Len(y) : i # j => y[i] # y[j] } }

\* themes as WordPress.org returns them, in either key order: the fields the
\* normalizer renames, fields that already have a name it renames to, tags
\* missing, null or a mapping, and a field with a name that every object
\* inherits a property for
WporgThemes ==
    LET ordered ==
            { ObjectOf(<<Pair("slug", a), Pair("id", b), Pair("preview_url", c),
                         Pair("screenshot_url", d), Pair("download_link", e),
                         Pair("download", f), Pair("tags", g), Pair("constructor", h)>>) :
                a \in {NoValue, Str(<<"t">>)},
                b \in {NoValue, Str(<<"u">>)},
                c \in {NoValue, Str(<<"v">>)},
                d \in {NoValue, Str(<<"w">>)},
                e \in {NoValue, Str(<<"x">>)},
                f \in {NoValue, Str(<<"y">>)},
                g \in {NoValue, Null} \cup TagMappings,
                h \in {NoValue, Str(<<"z">>)} }
    IN ordered \cup {Obj(Reverse(th.o)) : th \in ordered}

\* themes as the WordPress.com REST API returns them, in either key order
WpcomThemes ==
    LET ordered ==
            { ObjectOf(<<Pair("id", a), Pair("description_long", b), Pair("descriptionLong", c),
                         Pair("support_documentation", d), Pair("download_uri", e),
                         Pair("download", f), Pair("toString", g)>>) :
                a \in {NoValue, Str(<<"t">>)},
                b \in {NoValue, Str(<<"u">>)},
                c \in {NoValue, Str(<<"v">>)},
                d \in {NoValue, Str(<<"w">>)},
                e \in {NoValue, Str(<<"x">>)},
                f \in {NoValue, Str(<<"y">>)},
                g \in {NoValue, Str(<<"z">>)} }
    IN ordered \cup {Obj(Reverse(th.o)) : th \in ordered}

Stylesheets ==
    { NoValue, Null, Str(<<>>),
      Str(PremiumPrefix \o <<"x">>), Str(PremiumPrefix),
      Str(<<"p", "u", "b", "/", "x">>), Str(<<"p", "r", "e", "m", "i", "u", "m">>),
      Str(<<"x">> \o PremiumPrefix) }

Costs ==
    { NoValue, Null, Obj(<<>>),
      Obj(<<Pair("number", Num(0))>>), Obj(<<Pair("number", Num(5))>>),
      Obj(<<Pair("number", Str(<<"0">>))>>), Obj(<<Pair("number", Null)>>) }

\* what the premium classifier is asked about: a theme of any endpoint, with
\* or without a stylesheet and a cost, or no theme at all
PremiumThemes ==
    {Undefined, Null}
        \cup { ObjectOf(<<Pair("id", Str(<<"t">>)), Pair("stylesheet", a), Pair("cost", b)>>) :
                    a \in Stylesheets, b \in Costs }

InitTheme ==
    /\ adTracking = FALSE
    /\ ModuleLoaded
    /\ DEFAULT_THEME_QUERY \in DefaultThemeQueries
    /\ op = "init"
    /\ query = NoValue
    /\ siteId = NoValue
    /\ serializedQuery = NoValue
    /\ result = NoValue
    /\ theme \in JetpackThemes \cup WporgThemes \cup WpcomThemes \cup PremiumThemes
    /\ themes = NoValue

\* each normalizer is handed the themes of its own endpoint
NormalizeJetpackTheme ==
    /\ theme \in JetpackThemes
    /\ op' = "normalizeJetpackTheme"
    /\ result' = normalizeJetpackTheme(theme)
    /\ UNCHANGED <<adTrackingVars, DEFAULT_THEME_QUERY, query, siteId, serializedQuery, theme, themes>>

NormalizeWpcomTheme ==
    /\ theme \in WpcomThemes
    /\ op' = "normalizeWpcomTheme"
    /\ result' = normalizeWpcomTheme(theme)
    /\ UNCHANGED <<adTrackingVars, DEFAULT_THEME_QUERY, query, siteId, serializedQuery, theme, themes>>

NormalizeWporgTheme ==
    /\ theme \in WporgThemes
    /\ op' = "normalizeWporgTheme"
    /\ result' = normalizeWporgTheme(theme)
    /\ UNCHANGED <<adTrackingVars, DEFAULT_THEME_QUERY, query, siteId, serializedQuery, theme, themes>>

IsPremium ==
    /\ theme \in PremiumThemes
    /\ op' = "isPremium"
    /\ result' = isPremium(theme)
    /\ UNCHANGED <<adTrackingVars, DEFAULT_THEME_QUERY, query, siteId, serializedQuery, theme, themes>>

IsPremiumTheme ==
    /\ theme \in PremiumThemes
    /\ op' = "isPremiumTheme"
    /\ result' = isPremiumTheme(theme)
    /\ UNCHANGED <<adTrackingVars, DEFAULT_THEME_QUERY, query, siteId, serializedQuery, theme, themes>>

NextTheme ==
    \/ NormalizeJetpackTheme
    \/ NormalizeWpcomTheme
    \/ NormalizeWporgTheme
    \/ IsPremium
    \/ IsPremiumTheme

SpecTheme == InitTheme /\ [][NextTheme]_vars

-----------------------------------------------------------------------------
(* Properties of the normalizers *)

\* the terms, slug only, of the tags of a theme, in their order
ExpectedFeatureTerms(th) ==
    LET tags == Get(th, "tags").a
    IN Arr([i \in 1..Len(tags) |-> [t |-> "object", o |-> <<[k |-> "slug", v |-> tags[i]]>>]])

WpcomRenames ==
    { <<"description_long", "descriptionLong">>,
      <<"support_documentation", "supportDocumentation">>,
      <<"download_uri", "download">> }

WporgRenames ==
    { <<"slug", "id">>, <<"preview_url", "demo_uri">>,
      <<"screenshot_url", "screenshot">>, <<"download_link", "download">> }

\* every field the renames name is in the result under its new name, with its
\* value, and not under its old name
RenamesFields(renames, th, res) ==
    \A r \in renames :
        HasKey(th, r[1]) => /\ ~HasKey(res, r[1])
                            /\ HasKey(res, r[2])
                            /\ Get(res, r[2]) = Get(th, r[1])

\* terms is one {slug, name} pair per entry of the mapping, in its order
IsNamedTermsOf(terms, tags) ==
    /\ terms.t = "array"
    /\ Len(terms.a) = Len(tags.o)
    /\ \A i \in 1..Len(tags.o) :
            /\ Keys(terms.a[i].o) = {"slug", "name"}
            /\ Get(terms.a[i], "slug") = Str(tags.o[i].k)
            /\ Get(terms.a[i], "name") = tags.o[i].v

\* C11: normalizeWporgTheme renames slug to id, preview_url to demo_uri,
\* screenshot_url to screenshot and download_link to download; a renamed
\* object without tags is returned as it is (nothing is added to it and a
\* falsy tags stays), otherwise tags is removed and
\* taxonomies.theme_feature holds one {slug, name} pair per entry of the
\* mapping, with its name.
WporgThemeRenamesAndNamesTerms ==
    op = "normalizeWporgTheme" =>
        /\ RenamesFields(WporgRenames, theme, result)
        /\ IF ~Truthy(Get(theme, "tags"))
           THEN /\ ~HasKey(result, "taxonomies")
                /\ HasKey(result, "tags") = HasKey(theme, "tags")
                /\ Get(result, "tags") = Get(theme, "tags")
           ELSE /\ ~HasKey(result, "tags")
                /\ IsNamedTermsOf(Get(Get(result, "taxonomies"), "theme_feature"),
                                  Get(theme, "tags"))

\* C12: normalizeWpcomTheme renames exactly description_long,
\* support_documentation and download_uri, and every other field of the
\* input, one already named descriptionLong, supportDocumentation or download
\* included, is in the result with the value it had.
WpcomThemeRenamesOnlyThree ==
    op = "normalizeWpcomTheme" =>
        /\ RenamesFields(WpcomRenames, theme, result)
        /\ \A key \in Keys(theme.o) \ {r[1] : r \in WpcomRenames} :
                /\ HasKey(result, key)
                /\ Get(result, key) = Get(theme, key)

\* the stylesheet is a string that begins with premium/
HasPremiumStylesheet(th) ==
    LET stylesheet == Get(th, "stylesheet")
    IN /\ stylesheet.t = "string"
       /\ Len(stylesheet.s) >= Len(PremiumPrefix)
       /\ \A i \in 1..Len(PremiumPrefix) : stylesheet.s[i] = PremiumPrefix[i]

\* the theme has a stylesheet to go by
HasStylesheet(th) == Truthy(Get(th, "stylesheet"))

\* theme.cost.number is there and truthy
HasCost(th) == Truthy(Get(Get(th, "cost"), "number"))

\* C13 as stated: isPremiumTheme agrees with isPremium whenever the stylesheet
\* is present; it is true whenever cost.number is truthy and the stylesheet is
\* absent or does not begin with premium/; it is false for a missing theme and
\* for a theme with neither.
PremiumThemeAgreesWithStylesheet ==
    op = "isPremiumTheme" =>
        /\ HasStylesheet(theme) => Truthy(result) = Truthy(isPremium(theme))
        /\ HasCost(theme) /\ ~HasPremiumStylesheet(theme) => result = Bool(TRUE)
        /\ theme \in {Undefined, Null} => result = Bool(FALSE)
        /\ ~HasPremiumStylesheet(theme) /\ ~HasCost(theme) => result = Bool(FALSE)

\* C13 as amended: isPremiumTheme returns a boolean that agrees with what
\* isPremium returns, taken as a condition, whenever the stylesheet is present
\* and cost.number is not truthy; it is true whenever cost.number is truthy and
\* the stylesheet is absent or does not begin with premium/; it is false for a
\* missing theme and for a theme with neither.
PremiumThemeAgreesWithoutCost ==
    op = "isPremiumTheme" =>
        /\ IsBoolean(result)
        /\ HasStylesheet(theme) /\ ~HasCost(theme)
                => Truthy(result) = Truthy(isPremium(theme))
        /\ HasCost(theme) /\ ~HasPremiumStylesheet(theme) => result = Bool(TRUE)
        /\ theme \in {Undefined, Null} => result = Bool(FALSE)
        /\ ~HasPremiumStylesheet(theme) /\ ~HasCost(theme) => result = Bool(FALSE)

\* C13 witness: a theme with a stylesheet that is not a premium one and with a
\* price: isPremiumTheme says true where isPremium says false
PremiumThemeWitness ==
    /\ op = "isPremiumTheme"
    /\ Get(theme, "stylesheet") = Str(<<"p", "u", "b", "/", "x">>)
    /\ Get(Get(theme, "cost"), "number") = Num(5)
    /\ result = Bool(TRUE)
    /\ isPremium(theme) = Bool(FALSE)

-----------------------------------------------------------------------------
(* The ad-tracking module as a state machine: the application calls the      *)
(* exported functions, the browser completes the script loads                *)

\* what loadScript hands to onComplete when a script was loaded
LoadedValues == {Undefined, Null}

\* what loadScript hands to onComplete when a script could not be loaded: an
\* object that names the script, or the error event of the script element
ErrorValues ==
    { Obj(<<Pair("src", Str(<<"u">>))>>),
      Obj(<<Pair("isTrusted", Bool(TRUE)), Pair("type", Str(<<"e">>))>>) }

\* currencies of a purchased product: one with an exchange rate, one without
Currencies == {"USD", "CHF"}

InitAdTracking ==
    /\ adTracking \in BOOLEAN
    /\ ModuleLoaded
    /\ DEFAULT_THEME_QUERY = NoValue
    /\ op = "init"
    /\ query = NoValue
    /\ siteId = NoValue
    /\ serializedQuery = NoValue
    /\ result = NoValue
    /\ theme = NoValue
    /\ themes = NoValue

\* the module variables and globals become those of m
Becomes(m) ==
    /\ hasStartedFetchingScripts' = m.hasStartedFetchingScripts
    /\ hasFinishedFetchingScripts' = m.hasFinishedFetchingScripts
    /\ retargetingInitialized' = m.retargetingInitialized
    /\ scripts' = m.scripts
    /\ parallel' = m.parallel
    /\ window' = m.window

\* module.exports.retarget( context, next )
Retarget ==
    /\ Len(calls) < MaxCalls
    /\ calls' = Append(calls, "retarget")
    /\ Becomes(IF adTracking THEN retarget(Module, Len(calls) + 1) ELSE Module)
    /\ UNCHANGED <<adTracking, themesVars>>

RecordAddToCart ==
    /\ Len(calls) < MaxCalls
    /\ calls' = Append(calls, "recordAddToCart")
    /\ \E user \in BOOLEAN : Becomes(recordAddToCart(Module, Len(calls) + 1, user))
    /\ UNCHANGED <<adTracking, themesVars>>

\* recordViewCheckout( cart ), that is recordViewCheckoutInCriteo( cart )
RecordViewCheckout ==
    /\ Len(calls) < MaxCalls
    /\ calls' = Append(calls, "recordViewCheckout")
    /\ \E user \in BOOLEAN :
            Becomes(IF adTracking
                    THEN recordInCriteo(Module, "viewBasket", Len(calls) + 1, user)
                    ELSE Module)
    /\ UNCHANGED <<adTracking, themesVars>>

RecordPurchase ==
    /\ Len(calls) < MaxCalls
    /\ calls' = Append(calls, "recordPurchase")
    /\ \E currency \in Currencies : Becomes(recordPurchase(Module, currency, Len(calls) + 1))
    /\ UNCHANGED <<adTracking, themesVars>>

RecordOrderInCriteo ==
    /\ Len(calls) < MaxCalls
    /\ calls' = Append(calls, "recordOrderInCriteo")
    /\ \E user \in BOOLEAN :
            Becomes(IF adTracking
                    THEN recordInCriteo(Module, "viewBasket", Len(calls) + 1, user)
                    ELSE Module)
    /\ UNCHANGED <<adTracking, themesVars>>

\* a script was loaded and has run: the Google script defines
\* google_trackConversion and the Bing script UET, unless something in the
\* page keeps them from it; then loadScript calls onComplete
ScriptLoaded ==
    \E u \in ScriptNames, err \in LoadedValues, user \in BOOLEAN, defined \in BOOLEAN :
        /\ scripts[u] = "loading"
        /\ LET global == CASE u = "google" -> "google_trackConversion"
                           [] u = "bing" -> "UET"
                           [] OTHER -> "none"
               ran == IF global # "none" /\ defined
                      THEN [Module EXCEPT !.window[global] = TRUE]
                      ELSE Module
           IN Becomes(onComplete(ran, u, err, user))
        /\ UNCHANGED <<adTracking, calls, themesVars>>

\* a script could not be loaded: loadScript calls onComplete with an error
ScriptFailed ==
    \E u \in ScriptNames, err \in ErrorValues, user \in BOOLEAN :
        /\ scripts[u] = "loading"
        /\ Becomes(onComplete(Module, u, err, user))
        /\ UNCHANGED <<adTracking, calls, themesVars>>

NextAdTracking ==
    \/ Retarget
    \/ RecordAddToCart
    \/ RecordViewCheckout
    \/ RecordPurchase
    \/ RecordOrderInCriteo
    \/ ScriptLoaded
    \/ ScriptFailed

SpecAdTracking == InitAdTracking /\ [][NextAdTracking]_vars

-----------------------------------------------------------------------------
(* Properties of the ad-tracking module *)

\* how often a queue was given the event
Count(queue, event) == Cardinality({i \in 1..Len(queue) : queue[i] = event})

\* how often a queue was given an event of that name, from whatever call
CountNamed(queue, name) == Cardinality({i \in 1..Len(queue) : queue[i].event = name})

\* every tracking script was loaded, none failed
AllScriptsLoaded == \A u \in ScriptNames : scripts[u] = "loaded"

\* C14: whatever calls and completions of script loads there were, the
\* retargeting initialization (the Facebook PageView event and the AdWords
\* remarketing conversion) has run at most once, and not before every
\* tracking script was loaded without an error.
RetargetingOnceAfterScripts ==
    /\ CountNamed(window.fbq, "PageView") <= 1
    /\ CountNamed(window.conversions, "remarketing") <= 1
    /\ CountNamed(window.conversions, "remarketing") <= CountNamed(window.fbq, "PageView")
    /\ retargetingInitialized <=> CountNamed(window.fbq, "PageView") = 1
    /\ retargetingInitialized => AllScriptsLoaded

\* C14 witness: the retarget call that started the fetch is the one that
\* initialized retargeting once the scripts were there, with both trackers,
\* and another call of retarget added nothing
RetargetingWitness ==
    /\ calls = <<"retarget", "retarget">>
    /\ retargetingInitialized
    /\ window.fbq = <<Event("init", 0), Event("PageView", 1)>>
    /\ window.conversions = <<Event("remarketing", 1)>>

\* the call that started the fetch is a recording call
StartedByRecording ==
    /\ parallel # NoValue
    /\ parallel.callback.fn \in {"recordInCriteo", "recordAddToCart", "recordPurchase"}

\* the queue and the tracking event of the recording call that is bound in
\* the callback
TrackingQueue(callback) ==
    IF callback.fn = "recordInCriteo" THEN "criteo_q" ELSE "fbq"

TrackingEvent(callback) ==
    CASE callback.fn = "recordInCriteo" -> Event(callback.eventName, callback.call)
      [] callback.fn = "recordAddToCart" -> Event("AddToCart", callback.call)
      [] callback.fn = "recordPurchase" -> Event("Purchase", callback.call)

\* how often its tracking event was emitted so far
Emitted(callback) == Count(window[TrackingQueue(callback)], TrackingEvent(callback))

\* whether any tracker was told anything on behalf of that call
Touched(call) ==
    \E queue \in {"fbq", "uetq", "criteo_q", "qevents", "conversions"} :
        \E i \in 1..Len(window[queue]) : window[queue][i].call = call

\* the tracking event of the call that started the fetch is out exactly when
\* all five scripts were loaded without an error, and then once
StarterEmitsWhenLoaded ==
    StartedByRecording =>
        /\ Emitted(parallel.callback) = IF AllScriptsLoaded THEN 1 ELSE 0
        /\ ~AllScriptsLoaded => ~Touched(parallel.callback.call)
        /\ hasFinishedFetchingScripts <=> AllScriptsLoaded

\* C15: when a recording call with ad-tracking enabled is the call that
\* starts the fetch of the tracking scripts, its tracking event is emitted
\* exactly once and only after all five script loads completed without an
\* error; if a load reports an error the event is never emitted, and the
\* fetch is never started again.
StarterEventOnceAfterScripts ==
    [][ /\ StarterEmitsWhenLoaded'
        /\ hasStartedFetchingScripts =>
                /\ hasStartedFetchingScripts'
                /\ parallel'.callback = parallel.callback
                /\ \A u \in ScriptNames : scripts'[u] = "loading" => scripts[u] = "loading"
        /\ (\E u \in ScriptNames : scripts[u] = "failed") =>
                /\ \E u \in ScriptNames : scripts'[u] = "failed"
                /\ StartedByRecording => Emitted(parallel.callback)' = 0 ]_vars

\* C15 witness: recordAddToCart started the fetch; a second recordAddToCart,
\* made while the scripts were loading, went out at once, and the event of the
\* first went out when the last script was loaded
StarterEventWitness ==
    /\ parallel # NoValue
    /\ parallel.callback = [fn |-> "recordAddToCart", call |-> 1]
    /\ AllScriptsLoaded
    /\ window.fbq = <<Event("AddToCart", 2), Event("init", 0), Event("AddToCart", 1)>>

====
